---- MODULE Spec2Model ----
(***************************************************************************)
(* Model of folly/GLog.h: the two log-gating macros FB_LOG_EVERY_MS        *)
(* (WindowedGate) and FB_LOG_ONCE (OnceGate).                              *)
(*                                                                         *)
(* Every expansion of a macro by a thread is a call.  A call is split at   *)
(* its atomic operations, so that threads interleave between the clock     *)
(* sample, the load and the compare-exchange / exchange.  Atomics are      *)
(* modelled as one linearizable memory cell.  Timestamps are small         *)
(* naturals; int64 wrap-around of now - prev is out of range here.         *)
(***************************************************************************)
EXTENDS Integers, Sequences, FiniteSets, TLC

\* ---- bounds ----
NumThreads == 2
MaxTime == 3
MaxInterval == 2
MaxCalls == 3
NumOnceCallers == 3
MaxOnceCalls == 4

Threads == 1..NumThreads
Times == 0..MaxTime
Callers == 1..NumOnceCallers

\* ---- the concrete scenario of the spec (section 8, item 7) ----
ScenarioInterval == 10000
ScenarioTimes == {0, 5000, 10000, 10001, 20001}
ScenarioScript == <<0, 5000, 10000, 10001, 20001>>
ScenarioLen == Len(ScenarioScript)

VARIABLES
  hist,      \* FB_LEM_hist: the static atomic of the call site
  clock,     \* system_clock::now() in milliseconds since the epoch
  interval,  \* the positive value milli_interval has at this call site
  pc,        \* per thread: "idle", "test", "cas", "done"
  iv,        \* per thread: FB_LEM_interval of the current call
  now,       \* per thread: FB_LEM_now of the current call
  prev,      \* per thread: FB_LEM_prev of the current call
  ret,       \* per thread: TRUE iff the call reached LOG(severity)
  fires,     \* history: FB_LEM_now of the granted gated calls, in CAS order
  lastAt,    \* history: clock when the latest grant took effect
  fb,        \* per thread: Len(fires) when the call began
  fl,        \* per thread: Len(fires) when the call loaded FB_LEM_hist
  nl,        \* per thread: loads of FB_LEM_hist by the current call
  nx,        \* per thread: compare-exchanges by the current call
  ncalls,    \* history: number of calls begun
  base,      \* history: hist when the current batch of overlapping calls began
  batch,     \* history: threads whose current call belongs to the batch
  batchOk,   \* history: no thread has called twice within the batch
  script,    \* scenario: the timestamps the caller injects, in order
  results,   \* scenario: values returned so far
  logged,    \* __folly_detail_glog_logged: the static atomic_bool
  opc,       \* per thread: "idle", "load", "xchg", "done"
  oret,      \* per thread: TRUE iff the FB_LOG_ONCE call reached LOG
  oflag,     \* per thread: value of logged when the call began
  onl,       \* per thread: loads performed by the current call
  onx,       \* per thread: exchanges performed by the current call
  owl,       \* per thread: number of winners when the call loaded
  ocalls,    \* history: FB_LOG_ONCE calls begun
  owins,     \* history: FB_LOG_ONCE calls that returned true
  olosses    \* history: FB_LOG_ONCE calls that returned false

wvars == <<hist, clock, interval, pc, iv, now, prev, ret, fires, lastAt, fb,
           fl, nl, nx, ncalls, base, batch, batchOk>>
svars == <<script, results>>
ovars == <<logged, opc, oret, oflag, onl, onx, owl, ocalls, owins, olosses>>
vars == <<wvars, svars, ovars>>

\* ---- FB_LOG_EVERY_MS ----

\* static storage: FB_LEM_hist is zero-initialised
HistInit == 0

\* FB_LEM_prev is declared without an initialiser
Uninit == -1

SampleNowAlways(i, c) == c
\* FB_LEM_now = FB_LEM_interval <= 0 ? 0 : now().count()
SampleNow(i, c) == IF i <= 0 THEN 0 ELSE c

GatedBug(i) == i >= 0
\* FB_LEM_interval > 0 && ...
Gated(i) == i > 0

NotElapsedBug(n, p, i) == n - p <= i
NotElapsedNever(n, p, i) == FALSE
\* FB_LEM_now - (FB_LEM_prev = load) < FB_LEM_interval
NotElapsed(n, p, i) == n - p < i

CompareExchangeStore(obj, expected, desired) ==
  [ok |-> TRUE, obj |-> desired, expected |-> expected]
CompareExchangeKeep(obj, expected, desired) ==
  [ok |-> obj = expected, obj |-> obj, expected |-> obj]
CompareExchangeFail(obj, expected, desired) ==
  [ok |-> FALSE, obj |-> obj, expected |-> obj]
\* std::atomic::compare_exchange_strong(expected, desired)
CompareExchangeStrong(obj, expected, desired) ==
  IF obj = expected
    THEN [ok |-> TRUE, obj |-> desired, expected |-> expected]
    ELSE [ok |-> FALSE, obj |-> obj, expected |-> obj]

InCall(t) == pc[t] \in {"test", "cas"}

WInit ==
  /\ hist = HistInit
  /\ pc = [t \in Threads |-> "idle"]
  /\ iv = [t \in Threads |-> 0]
  /\ now = [t \in Threads |-> 0]
  /\ prev = [t \in Threads |-> Uninit]
  /\ ret = [t \in Threads |-> FALSE]
  /\ fires = <<>>
  /\ lastAt = 0
  /\ fb = [t \in Threads |-> 0]
  /\ fl = [t \in Threads |-> 0]
  /\ nl = [t \in Threads |-> 0]
  /\ nx = [t \in Threads |-> 0]
  /\ ncalls = 0
  /\ base = HistInit
  /\ batch = {}
  /\ batchOk = TRUE

OInit ==
  /\ logged = FALSE
  /\ opc = [t \in Callers |-> "idle"]
  /\ oret = [t \in Callers |-> FALSE]
  /\ oflag = [t \in Callers |-> FALSE]
  /\ onl = [t \in Callers |-> 0]
  /\ onx = [t \in Callers |-> 0]
  /\ owl = [t \in Callers |-> 0]
  /\ ocalls = 0
  /\ owins = 0
  /\ olosses = 0

Init ==
  /\ WInit
  /\ OInit
  /\ clock \in Times
  /\ interval \in 1..MaxInterval
  /\ script = <<>>
  /\ results = <<>>

\* the two outer for statements: evaluate milli_interval, sample the clock
BeginCall(t, i, c) ==
  /\ pc[t] \in {"idle", "done"}
  /\ pc' = [pc EXCEPT ![t] = "test"]
  /\ iv' = [iv EXCEPT ![t] = i]
  /\ now' = [now EXCEPT ![t] = SampleNow(i, c)]
  /\ prev' = [prev EXCEPT ![t] = Uninit]
  /\ ret' = [ret EXCEPT ![t] = FALSE]
  /\ fb' = [fb EXCEPT ![t] = Len(fires)]
  /\ fl' = [fl EXCEPT ![t] = 0]
  /\ nl' = [nl EXCEPT ![t] = 0]
  /\ nx' = [nx EXCEPT ![t] = 0]
  /\ ncalls' = ncalls + 1
  /\ UNCHANGED <<hist, interval, fires, lastAt>>

\* history only: a call that begins while no call is in flight opens a batch
TrackBatch(t, i) ==
  IF \A u \in Threads : ~InCall(u)
    THEN /\ base' = hist
         /\ batch' = IF Gated(i) THEN {t} ELSE {}
         /\ batchOk' = TRUE
    ELSE /\ base' = base
         /\ batch' = IF Gated(i) THEN batch \cup {t} ELSE batch \ {t}
         /\ batchOk' = (batchOk /\ t \notin batch)

Begin(t, i) ==
  /\ ncalls < MaxCalls
  /\ BeginCall(t, i, clock)
  /\ TrackBatch(t, i)
  /\ UNCHANGED <<clock, svars, ovars>>

\* FB_LEM_interval > 0 is false: the else branch, LOG(severity)
LogUngated(t) ==
  /\ pc[t] = "test"
  /\ ~Gated(iv[t])
  /\ pc' = [pc EXCEPT ![t] = "done"]
  /\ ret' = [ret EXCEPT ![t] = TRUE]
  /\ UNCHANGED <<hist, clock, interval, iv, now, prev, fires, lastAt, fb, fl,
                 nl, nx, ncalls, base, batch, batchOk, svars, ovars>>

\* FB_LEM_prev = FB_LEM_hist.load(acquire), then the elapsed-time test
Load(t) ==
  /\ pc[t] = "test"
  /\ Gated(iv[t])
  /\ prev' = [prev EXCEPT ![t] = hist]
  /\ IF NotElapsed(now[t], hist, iv[t])
       THEN pc' = [pc EXCEPT ![t] = "done"]
       ELSE pc' = [pc EXCEPT ![t] = "cas"]
  /\ fl' = [fl EXCEPT ![t] = Len(fires)]
  /\ nl' = [nl EXCEPT ![t] = @ + 1]
  /\ UNCHANGED <<hist, clock, interval, iv, now, ret, fires, lastAt, fb, nx,
                 ncalls, base, batch, batchOk, svars, ovars>>

\* a compare-exchange loop: a losing call goes back to the load
CasRetry(t) ==
  /\ pc[t] = "cas"
  /\ LET r == CompareExchangeStrong(hist, prev[t], now[t]) IN
       /\ hist' = r.obj
       /\ prev' = [prev EXCEPT ![t] = r.expected]
       /\ ret' = [ret EXCEPT ![t] = r.ok]
       /\ fires' = IF r.ok THEN Append(fires, now[t]) ELSE fires
       /\ lastAt' = IF r.ok THEN clock ELSE lastAt
       /\ pc' = [pc EXCEPT ![t] = IF r.ok THEN "done" ELSE "test"]
  /\ nx' = [nx EXCEPT ![t] = @ + 1]
  /\ UNCHANGED <<clock, interval, iv, now, fb, fl, nl, ncalls, base, batch,
                 batchOk, svars, ovars>>

\* !FB_LEM_hist.compare_exchange_strong(FB_LEM_prev, FB_LEM_now), else LOG
Cas(t) ==
  /\ pc[t] = "cas"
  /\ LET r == CompareExchangeStrong(hist, prev[t], now[t]) IN
       /\ hist' = r.obj
       /\ prev' = [prev EXCEPT ![t] = r.expected]
       /\ ret' = [ret EXCEPT ![t] = r.ok]
       /\ fires' = IF r.ok THEN Append(fires, now[t]) ELSE fires
       /\ lastAt' = IF r.ok THEN clock ELSE lastAt
  /\ nx' = [nx EXCEPT ![t] = @ + 1]
  /\ pc' = [pc EXCEPT ![t] = "done"]
  /\ UNCHANGED <<clock, interval, iv, now, fb, fl, nl, ncalls, base, batch,
                 batchOk, svars, ovars>>

\* the shared clock advances
Tick ==
  /\ clock < MaxTime
  /\ clock' = clock + 1
  /\ UNCHANGED <<hist, interval, pc, iv, now, prev, ret, fires, lastAt, fb, fl,
                 nl, nx, ncalls, base, batch, batchOk, svars, ovars>>

Next ==
  \/ \E t \in Threads : \E i \in {interval, 0, -1} : Begin(t, i)
  \/ \E t \in Threads : LogUngated(t)
  \/ \E t \in Threads : Load(t)
  \/ \E t \in Threads : Cas(t)
  \/ Tick

Spec == Init /\ [][Next]_vars

\* system_clock is not steady: now() may return any value, lower than an
\* earlier one included, whenever a call samples it
BeginAnyTime(t, i) ==
  /\ ncalls < MaxCalls
  /\ \E c \in Times : BeginCall(t, i, c)
  /\ UNCHANGED <<clock, base, batch, batchOk, svars, ovars>>

NextRegress ==
  \/ \E t \in Threads : \E i \in {interval, 0, -1} : BeginAnyTime(t, i)
  \/ \E t \in Threads : LogUngated(t)
  \/ \E t \in Threads : Load(t)
  \/ \E t \in Threads : Cas(t)

RegressInit ==
  /\ WInit
  /\ OInit
  /\ clock = 0
  /\ interval \in 1..MaxInterval
  /\ script = <<>>
  /\ results = <<>>

SpecRegress == RegressInit /\ [][NextRegress]_vars

\* ---- the scenario of section 8, item 7: one thread, injected timestamps ----

ScenarioInit ==
  /\ WInit
  /\ OInit
  /\ clock = 0
  /\ interval = ScenarioInterval
  /\ script \in [1..ScenarioLen -> ScenarioTimes]
  /\ results = <<>>

\* the caller supplies the next timestamp and enters the macro
ScenarioBegin ==
  /\ ncalls < Len(script)
  /\ pc[1] = "idle"
  /\ clock' = script[ncalls + 1]
  /\ BeginCall(1, interval, script[ncalls + 1])
  /\ UNCHANGED <<base, batch, batchOk, svars, ovars>>

\* the caller notes whether LOG(severity) was reached
ScenarioReturn ==
  /\ pc[1] = "done"
  /\ pc' = [pc EXCEPT ![1] = "idle"]
  /\ results' = Append(results, ret[1])
  /\ UNCHANGED <<hist, clock, interval, iv, now, prev, ret, fires, lastAt, fb, fl,
                 nl, nx, ncalls, base, batch, batchOk, script, ovars>>

ScenarioNext ==
  \/ ScenarioBegin
  \/ Load(1)
  \/ Cas(1)
  \/ ScenarioReturn

SpecScenario == ScenarioInit /\ [][ScenarioNext]_vars

\* ---- FB_LOG_ONCE ----

ExchangeNoStore(obj, desired) == [old |-> obj, obj |-> obj]
ExchangeOldFalse(obj, desired) == [old |-> FALSE, obj |-> desired]
\* std::atomic_bool::exchange(desired)
Exchange(obj, desired) == [old |-> obj, obj |-> desired]

FastPathNever(l) == FALSE
\* FOLLY_LIKELY(__folly_detail_glog_logged.load(relaxed)) || ...
FastPath(l) == l

OInCall(t) == opc[t] \in {"load", "xchg"}

\* the outer for statement: __folly_detail_glog_once = true
OBegin(t) ==
  /\ opc[t] \in {"idle", "done"}
  /\ ocalls < MaxOnceCalls
  /\ opc' = [opc EXCEPT ![t] = "load"]
  /\ oret' = [oret EXCEPT ![t] = FALSE]
  /\ oflag' = [oflag EXCEPT ![t] = logged]
  /\ onl' = [onl EXCEPT ![t] = 0]
  /\ onx' = [onx EXCEPT ![t] = 0]
  /\ owl' = [owl EXCEPT ![t] = 0]
  /\ ocalls' = ocalls + 1
  /\ UNCHANGED <<logged, owins, olosses, wvars, svars>>

\* __folly_detail_glog_logged.load(relaxed): true ends the call without LOG
OLoad(t) ==
  /\ opc[t] = "load"
  /\ onl' = [onl EXCEPT ![t] = @ + 1]
  /\ owl' = [owl EXCEPT ![t] = owins]
  /\ IF FastPath(logged)
       THEN /\ opc' = [opc EXCEPT ![t] = "done"]
            /\ olosses' = olosses + 1
       ELSE /\ opc' = [opc EXCEPT ![t] = "xchg"]
            /\ olosses' = olosses
  /\ UNCHANGED <<logged, oret, oflag, onx, ocalls, owins, wvars, svars>>

\* __folly_detail_glog_logged.exchange(true, relaxed): false reaches LOG
OExchange(t) ==
  /\ opc[t] = "xchg"
  /\ LET r == Exchange(logged, TRUE) IN
       /\ logged' = r.obj
       /\ oret' = [oret EXCEPT ![t] = ~r.old]
       /\ owins' = IF r.old THEN owins ELSE owins + 1
       /\ olosses' = IF r.old THEN olosses + 1 ELSE olosses
  /\ onx' = [onx EXCEPT ![t] = @ + 1]
  /\ opc' = [opc EXCEPT ![t] = "done"]
  /\ UNCHANGED <<oflag, onl, owl, ocalls, wvars, svars>>

OnceInit ==
  /\ WInit
  /\ OInit
  /\ clock = 0
  /\ interval = 1
  /\ script = <<>>
  /\ results = <<>>

OnceNext ==
  \/ \E t \in Callers : OBegin(t)
  \/ \E t \in Callers : OLoad(t)
  \/ \E t \in Callers : OExchange(t)

SpecOnce == OnceInit /\ [][OnceNext]_vars

\* ---- both macros, one call site exercised per behaviour ----

\* FB_LOG_EVERY_MS with the clock at the value Init draws: the steps a call
\* takes do not depend on when the clock moves
NextEveryMs ==
  \/ \E t \in Threads : \E i \in {interval, 0, -1} : Begin(t, i)
  \/ \E t \in Threads : LogUngated(t)
  \/ \E t \in Threads : Load(t)
  \/ \E t \in Threads : Cas(t)

\* the two call sites share no state: a behaviour runs calls of one of them
NextWaitFree ==
  \/ ocalls = 0 /\ NextEveryMs
  \/ ncalls = 0 /\ OnceNext

\* the steps of thread 1 inside FB_LOG_EVERY_MS and inside FB_LOG_ONCE
StepEveryMs(t) == LogUngated(t) \/ Load(t) \/ Cas(t)
StepOnce(t) == OLoad(t) \/ OExchange(t)

\* only thread 1 is known to keep running; any other thread may stop anywhere
SpecWaitFree ==
  /\ Init
  /\ [][NextWaitFree]_vars
  /\ WF_vars(StepEveryMs(1))
  /\ WF_vars(StepOnce(1))

\* ---- properties ----

GatedDone(t) == pc[t] = "done" /\ Gated(iv[t])
Quiet == \A t \in Threads : ~InCall(t)
FireIdx == 1..Len(fires)
\* timestamps a and b lie in one half-open range [w, w + interval)
SameWindow(a, b) == a - b < interval /\ b - a < interval
BatchGrants == {t \in batch : ret[t]}
BatchSingleWindow == \A t, u \in batch : SameWindow(now[t], now[u])

\* C1: for the fixed interval > 0, among the gated calls whose captured
\* timestamps lie in one range [w, w + interval) at most one is granted: no
\* range holds two grants, a call that returned true is one of the grants,
\* and two calls that returned true are not in one range.
C1_AtMostOnePerWindow ==
  /\ \A j, k \in FireIdx : j # k => ~SameWindow(fires[j], fires[k])
  /\ \A t \in Threads :
       GatedDone(t) /\ ret[t] =>
         \E k \in FireIdx : k > fb[t] /\ fires[k] = now[t]
  /\ \A t, u \in Threads :
       t # u /\ GatedDone(t) /\ GatedDone(u) /\ ret[t] /\ ret[u] =>
         ~SameWindow(now[t], now[u])

\* two grants exist, and a call inside the window of a grant returned false
C1_Witness ==
  /\ Len(fires) >= 2
  /\ \E t \in Threads : \E k \in FireIdx :
       /\ GatedDone(t) /\ ~ret[t]
       /\ SameWindow(now[t], fires[k])

\* C3 as stated: once a batch of overlapping gated calls whose timestamps lie
\* in one window has completed, exactly one of them returned true, whatever
\* the gate held before.
C3_ExactlyOneOriginal ==
  Quiet /\ batchOk /\ batch # {} /\ BatchSingleWindow =>
    Cardinality(BatchGrants) = 1

\* C3 amended: such a batch has at most one call that returned true, and
\* exactly one when every timestamp of the batch is at least interval past
\* the value hist held when the batch began.
C3_ExactlyOneWhenElapsed ==
  Quiet /\ batchOk /\ batch # {} /\ BatchSingleWindow =>
    /\ Cardinality(BatchGrants) <= 1
    /\ (\A t \in batch : now[t] >= base + interval) =>
         Cardinality(BatchGrants) = 1

\* two overlapping calls on a gate that has fired before, one granted
C3_Witness ==
  /\ Quiet /\ batchOk /\ BatchSingleWindow
  /\ Cardinality(batch) >= 2
  /\ base > 0
  /\ \A t \in batch : now[t] >= base + interval
  /\ Cardinality(BatchGrants) = 1

\* C4: a gated call that began after a grant with timestamp f, and whose own
\* timestamp lies in [f, f + interval), returns false.
C4_NoRearmInsideWindow ==
  \A t \in Threads : \A k \in FireIdx :
    /\ GatedDone(t)
    /\ k <= fb[t]
    /\ now[t] >= fires[k]
    /\ now[t] < fires[k] + interval
    => ~ret[t]

\* a call began after a grant, inside its window, and was refused
C4_Witness ==
  \E t \in Threads : \E k \in FireIdx :
    /\ GatedDone(t)
    /\ k <= fb[t]
    /\ now[t] >= fires[k]
    /\ now[t] < fires[k] + interval
    /\ ~ret[t]

\* C5: a gated call that began after a grant with timestamp f, with its own
\* timestamp >= f + interval, returns true unless another call was granted
\* between that grant and its return.
C5_Rearm ==
  \A t \in Threads :
    /\ GatedDone(t)
    /\ fb[t] >= 1
    /\ now[t] >= fires[fb[t]] + interval
    /\ ~ret[t]
    => Len(fires) > fb[t]

\* a call began after a grant, one interval or more later, and was granted
C5_Witness ==
  \E t \in Threads :
    /\ GatedDone(t)
    /\ fb[t] >= 1
    /\ now[t] >= fires[fb[t]] + interval
    /\ ret[t]
    /\ Len(fires) = fb[t] + 1

\* C6: a call whose interval is zero or negative returns true.
C6_DisabledAlwaysLogs ==
  \A t \in Threads : pc[t] = "done" /\ iv[t] <= 0 => ret[t]

\* calls with interval 0 and -1 returned true on a gate that has fired and
\* whose window is still open
C6_Witness ==
  /\ \E t \in Threads : pc[t] = "done" /\ iv[t] = 0 /\ ret[t]
  /\ \E t \in Threads : pc[t] = "done" /\ iv[t] = -1 /\ ret[t]
  /\ hist > 0
  /\ clock - hist < interval

\* C7: with a non-decreasing clock, a winning compare-exchange takes effect
\* at least interval after the previous winning compare-exchange took effect
\* (so any two emissions are at least interval of clock time apart).
C7_EmissionsSpaced ==
  [][Len(fires) >= 1 /\ Len(fires') > Len(fires) =>
       clock' - lastAt >= interval]_vars

\* C10: the first call on the fresh gate, with nothing concurrent, returns
\* true exactly when its timestamp is >= interval.
C10_FirstCall ==
  \A t \in Threads :
    GatedDone(t) /\ ncalls = 1 => (ret[t] <=> now[t] >= interval)

\* the only call so far was granted
C10_Witness ==
  \E t \in Threads :
    GatedDone(t) /\ ncalls = 1 /\ ret[t] /\ now[t] >= interval /\ fb[t] = 0

\* C9 as stated: the scripted calls return true, false, true, false, true.
C9_ScenarioOriginal ==
  script = ScenarioScript /\ Len(results) = ScenarioLen =>
    results = <<TRUE, FALSE, TRUE, FALSE, TRUE>>

\* C9 amended: the scripted calls return false, false, true, false, true.
C9_Scenario ==
  script = ScenarioScript /\ Len(results) = ScenarioLen =>
    results = <<FALSE, FALSE, TRUE, FALSE, TRUE>>

\* the five scripted calls have returned
C9_Witness ==
  script = ScenarioScript /\ Len(results) = ScenarioLen /\ hist = 20001

OQuiet == \A t \in Callers : ~OInCall(t)

\* C2: once all FB_LOG_ONCE calls begun so far have completed, exactly one
\* has returned true and the others false; a call that began when the flag
\* was already true returns false.
C2_ExactlyOnce ==
  /\ OQuiet /\ ocalls >= 1 => owins = 1 /\ olosses = ocalls - 1
  /\ \A t \in Callers : opc[t] = "done" /\ oflag[t] => ~oret[t]

\* three callers raced through the exchange, then a later call returned false
C2_Witness ==
  /\ OQuiet
  /\ ocalls = NumOnceCallers + 1
  /\ owins = 1
  /\ Cardinality({t \in Callers : onx[t] = 1}) = NumOnceCallers - 1
  /\ \E t \in Callers : oflag[t] /\ ~oret[t]

\* C8: a call that began with the flag true performs one load and no
\* exchange and returns false; a call performs an exchange only if it
\* loaded false before any caller had won.
C8_WriteFreeSteadyState ==
  /\ \A t \in Callers :
       oflag[t] =>
         /\ onx[t] = 0
         /\ opc[t] # "xchg"
         /\ opc[t] = "done" => onl[t] = 1 /\ ~oret[t]
  /\ \A t \in Callers :
       onx[t] >= 1 \/ opc[t] = "xchg" => owl[t] = 0 /\ ~oflag[t] /\ onl[t] = 1

\* a racer lost its exchange, and a later call ended after its load
C8_Witness ==
  /\ \E t \in Callers : opc[t] = "done" /\ onx[t] = 1 /\ ~oret[t]
  /\ \E t \in Callers : opc[t] = "done" /\ oflag[t] /\ onl[t] = 1 /\ onx[t] = 0

\* the value a call loaded: hist as the grants before its load left it
LoadedValue(t) == IF fl[t] = 0 THEN HistInit ELSE fires[fl[t]]
\* the call passed the elapsed-time test and has attempted its compare-exchange
Attempted(t) == pc[t] = "done" /\ nx[t] = 1

\* C11: a compare-exchange fails only if another call's compare-exchange
\* succeeded between this call's load and its own attempt; a winner's grant is
\* the first one after its load; of the calls that loaded one value and
\* passed the test at most one wins, and once all have attempted one has won.
C11_OneWinnerPerValue ==
  /\ \A t \in Threads : Attempted(t) /\ ~ret[t] => Len(fires) > fl[t]
  /\ \A t \in Threads :
       Attempted(t) /\ ret[t] =>
         Len(fires) > fl[t] /\ fires[fl[t] + 1] = now[t]
  /\ \A t, u \in Threads :
       /\ t # u /\ Attempted(t) /\ Attempted(u)
       /\ LoadedValue(t) = LoadedValue(u)
       => ~(ret[t] /\ ret[u])
  /\ \A t \in Threads :
       /\ Attempted(t)
       /\ \A u \in Threads :
            pc[u] = "cas" => LoadedValue(u) # LoadedValue(t)
       => \E k \in FireIdx :
            k > fl[t] /\ (IF k = 1 THEN HistInit ELSE fires[k - 1]) = LoadedValue(t)

\* two calls loaded the same value and both attempted: one won, one lost
C11_Witness ==
  \E t, u \in Threads :
    /\ t # u /\ Attempted(t) /\ Attempted(u)
    /\ fl[t] = fl[u] /\ fl[t] >= 1
    /\ ret[t] /\ ~ret[u]

\* C12: for whatever timestamps the calls capture, a change of hist raises it
\* by at least interval (so it never decreases and never holds a value
\* again), and the timestamps of the granted calls, in grant order, rise by
\* at least interval.
C12_MonotoneSpaced ==
  /\ [][hist' # hist => hist' - hist >= interval]_vars
  /\ [](\A j, k \in FireIdx : j < k => fires[k] - fires[j] >= interval)
  /\ [](\A k \in FireIdx : fires[k] - HistInit >= interval)

\* after two grants a call captured a lower timestamp and was refused
C12_Witness ==
  /\ Len(fires) >= 2
  /\ \E t \in Threads :
       GatedDone(t) /\ fb[t] = Len(fires) /\ now[t] < hist /\ ~ret[t]

\* C13: hist is 0 while no gated call has been granted and the timestamp of
\* the latest granted call afterwards; a call that returns false leaves hist
\* as it was, a gated call that returns true sets it to the timestamp it
\* captured at entry, and that timestamp does not change during the call.
C13_StateNeverCorrupted ==
  /\ [](hist = IF fires = <<>> THEN 0 ELSE fires[Len(fires)])
  /\ [][\A t \in Threads :
          pc[t] # "done" /\ pc'[t] = "done" =>
            /\ ~ret'[t] => hist' = hist
            /\ ret'[t] /\ Gated(iv[t]) => hist' = now[t] /\ nx'[t] = 1
            /\ now'[t] = now[t]]_vars
  /\ [][\A t \in Threads : pc[t] = "test" /\ pc'[t] = "cas" =>
          now'[t] = now[t] /\ hist' = hist]_vars

\* a call was granted, and a call that came later with a lower timestamp was
\* refused and left hist at the granted timestamp
C13_Witness ==
  \E t, u \in Threads :
    /\ Attempted(t) /\ ret[t] /\ hist = now[t]
    /\ GatedDone(u) /\ ~ret[u] /\ fb[u] >= 1 /\ now[u] < hist

\* C14: a call performs at most one load and at most one compare-exchange
\* or exchange, the latter only after its load; a call that lost does not go
\* back; a call in flight always has a step it can take; and a thread that
\* keeps running completes its call even if every other thread stops.
C14_WaitFree ==
  /\ [](\A t \in Threads : nl[t] <= 1 /\ nx[t] <= 1 /\ nx[t] <= nl[t])
  /\ [](\A t \in Callers : onl[t] <= 1 /\ onx[t] <= 1 /\ onx[t] <= onl[t])
  /\ [][\A t \in Threads : pc[t] = "cas" => pc'[t] \in {"cas", "done"}]_vars
  /\ [][\A t \in Callers : opc[t] = "xchg" => opc'[t] \in {"xchg", "done"}]_vars
  /\ [](\A t \in Threads : InCall(t) => ENABLED StepEveryMs(t))
  /\ [](\A t \in Callers : OInCall(t) => ENABLED StepOnce(t))
  /\ (InCall(1) ~> pc[1] = "done")
  /\ (OInCall(1) ~> opc[1] = "done")

\* thread 1 lost its only compare-exchange and is done while thread 2 has
\* stopped in the middle of its call
C14_Witness ==
  /\ Attempted(1) /\ ~ret[1] /\ nl[1] = 1
  /\ InCall(2)

\* C15: the flag is true exactly when one call has won and false exactly when
\* none has; it never goes from true back to false; a call that has returned
\* false did so with a winner in place.
C15_FlagTracksWinner ==
  /\ [](logged <=> owins = 1)
  /\ [](~logged <=> owins = 0)
  /\ [][logged => logged']_vars
  /\ [](\A t \in Callers : opc[t] = "done" /\ ~oret[t] => owins = 1 /\ logged)
  /\ [](olosses > 0 => owins = 1)

\* one caller has won, two have returned false, one is about to lose its
\* exchange
C15_Witness ==
  /\ logged /\ owins = 1 /\ olosses >= 2
  /\ \E t \in Callers : opc[t] = "xchg"

\* C16: a call with interval <= 0 performs no load and no compare-exchange,
\* leaves FB_LEM_prev unset and takes 0 instead of sampling the clock; its
\* steps leave hist, the grants and every other thread's call as they were.
C16_DisabledLeavesGateAlone ==
  /\ [](\A t \in Threads :
          pc[t] \in {"test", "done"} /\ iv[t] <= 0 =>
            nl[t] = 0 /\ nx[t] = 0 /\ prev[t] = Uninit /\ now[t] = 0)
  /\ [][\A t \in Threads :
          pc'[t] # pc[t] /\ iv'[t] <= 0 =>
            /\ hist' = hist
            /\ fires' = fires
            /\ \A u \in Threads \ {t} :
                 /\ pc'[u] = pc[u] /\ ret'[u] = ret[u]
                 /\ now'[u] = now[u] /\ prev'[u] = prev[u]]_vars

\* a disabled call has returned true at a clock time > 0 on a gate that has
\* fired, while a gated call on another thread is between load and
\* compare-exchange
C16_Witness ==
  \E t, u \in Threads :
    /\ pc[t] = "done" /\ iv[t] <= 0 /\ ret[t]
    /\ clock > 0 /\ hist > 0
    /\ pc[u] = "cas"
====
